---- MODULE Spec2Model ----
(***************************************************************************)
(* Model of orgstats.Gather (src/orgstats/stats.go): one aggregation run   *)
(* over an organization, with the upstream GitHub API as the environment.  *)
(*                                                                         *)
(* Strings that are compared with strings.EqualFold (logins, repository    *)
(* names, list entries) are sequences of one-character strings, so that    *)
(* case folding is computed and not assumed.  Times are integers; 0 is the *)
(* zero time.Time.  Durations are whole seconds.                           *)
(***************************************************************************)
EXTENDS Integers, Sequences, FiniteSets, TLC

VARIABLES
    \* the configured lists, before they are split
    rawBlacklist, rawWhitelist,
    \* arguments of Gather
    userBlacklist, repoBlacklist, userWhitelist, repoWhitelist, since,
    includeReviewStats, excludeForks,
    \* the upstream organization
    memberPages, repoPages, contributorStats, reviewTotals,
    \* the run
    pc, page, members, allRepos, repoIdx, stats, csIdx, data, pending, user, ret,
    \* the upstream call in progress, and the history of the run
    call, served, statsLog, addLog

config   == <<rawBlacklist, rawWhitelist, userBlacklist, repoBlacklist,
              userWhitelist, repoWhitelist, since, includeReviewStats, excludeForks>>
upstream == <<memberPages, repoPages, contributorStats, reviewTotals>>
vars     == <<config, upstream, pc, page, members, allRepos, repoIdx, stats,
              csIdx, data, pending, user, ret, call, served, statsLog,
              addLog>>

----------------------------------------------------------------------------
\* Bounds

\* transient signals the upstream sends in answer to one call
MaxTransient == 1

\* the longest configured list the splitting is checked on
MaxEntries == 2

----------------------------------------------------------------------------
\* Strings and policy lists

\* logins
al == <<"a", "l">>
AL == <<"A", "L">>
Al == <<"A", "l">>
bo == <<"b", "o">>
BO == <<"B", "O">>
NoLogin == <<>>

\* repository names
web == <<"w", "e", "b">>
WEB == <<"W", "E", "B">>
api == <<"a", "p", "i">>
cli == <<"c", "l", "i">>

UserLogins == {al, AL, bo}
RepoNames  == {web, WEB, api, cli}

ToLower(c) ==
    CASE c = "A" -> "a"
      [] c = "B" -> "b"
      [] c = "E" -> "e"
      [] c = "L" -> "l"
      [] c = "O" -> "o"
      [] c = "W" -> "w"
      [] OTHER   -> c

EqualFold(x, y) ==
    /\ Len(x) = Len(y)
    /\ \A i \in 1..Len(x) : ToLower(x[i]) = ToLower(y[i])

\* isBlacklisted comparing with == in place of strings.EqualFold
isBlacklistedExact(blacklist, x) ==
    \E i \in 1..Len(blacklist) : x = blacklist[i]

isBlacklisted(blacklist, x) ==
    \E i \in 1..Len(blacklist) : EqualFold(x, blacklist[i])

\* isWhitelisted comparing with == in place of strings.EqualFold
isWhitelistedExact(whitelist, x) ==
    \E i \in 1..Len(whitelist) : x = whitelist[i]

isWhitelisted(whitelist, x) ==
    IF Len(whitelist) = 0
    THEN FALSE
    ELSE \E i \in 1..Len(whitelist) : EqualFold(x, whitelist[i])

----------------------------------------------------------------------------
\* Splitting of the configured lists

UserPrefix == <<"u", "s", "e", "r", ":">>
RepoPrefix == <<"r", "e", "p", "o", ":">>

HasPrefix(x, p) == Len(x) >= Len(p) /\ SubSeq(x, 1, Len(p)) = p

TrimPrefix(x, p) == IF HasPrefix(x, p) THEN SubSeq(x, Len(p) + 1, Len(x)) ELSE x

\* the loop of buildBlacklists and of buildWhitelists, from entry i on
RECURSIVE splitLoop(_, _, _, _)
splitLoop(list, i, users, repos) ==
    IF i > Len(list)
    THEN <<users, repos>>
    ELSE IF HasPrefix(list[i], UserPrefix)
         THEN splitLoop(list, i + 1, Append(users, TrimPrefix(list[i], UserPrefix)), repos)
         ELSE IF HasPrefix(list[i], RepoPrefix)
              THEN splitLoop(list, i + 1, users,
                             Append(repos, TrimPrefix(list[i], RepoPrefix)))
              ELSE splitLoop(list, i + 1, Append(users, list[i]), Append(repos, list[i]))

\* buildBlacklists that does not strip the user: prefix
buildBlacklistsUntrimmed(list) ==
    LET RECURSIVE loop(_, _, _)
        loop(i, users, repos) ==
            IF i > Len(list)
            THEN <<users, repos>>
            ELSE IF HasPrefix(list[i], UserPrefix)
                 THEN loop(i + 1, Append(users, list[i]), repos)
                 ELSE IF HasPrefix(list[i], RepoPrefix)
                      THEN loop(i + 1, users, Append(repos, TrimPrefix(list[i], RepoPrefix)))
                      ELSE loop(i + 1, Append(users, list[i]), Append(repos, list[i]))
    IN  loop(1, <<>>, <<>>)

buildBlacklists(list) == splitLoop(list, 1, <<>>, <<>>)

buildWhitelists(list) == splitLoop(list, 1, <<>>, <<>>)

----------------------------------------------------------------------------
\* Stats

Stat(ad, de, co, re) ==
    [Additions |-> ad, Deletions |-> de, Commits |-> co, Reviews |-> re]

ZeroStat == Stat(0, 0, 0, 0)

NewStats == [l \in {} |-> ZeroStat]

Logins(d) == DOMAIN d

For(d, login) == IF login \in DOMAIN d THEN d[login] ELSE ZeroStat

IsZero(t) == t = 0

\* time.Time.Before taken for "not after"
BeforeOrAt(t, u) == t <= u

Before(t, u) == t < u

Put(d, login, stat) ==
    [l \in (DOMAIN d) \cup {login} |-> IF l = login THEN stat ELSE d[l]]

\* addReviewStats that writes a record holding the reviews alone
addReviewStatsFresh(d, usr, reviewed) ==
    Put(d, usr, [ZeroStat EXCEPT !.Reviews = reviewed])

addReviewStats(d, usr, reviewed) ==
    LET stat == For(d, usr)
    IN  Put(d, usr, [stat EXCEPT !.Reviews = @ + reviewed])

RECURSIVE weekLoop(_, _, _, _)
weekLoop(weeks, snc, i, acc) ==
    IF i > Len(weeks)
    THEN acc
    ELSE IF ~IsZero(snc) /\ Before(weeks[i].Week, snc)
         THEN weekLoop(weeks, snc, i + 1, acc)
         ELSE weekLoop(weeks, snc, i + 1,
                       [adds    |-> acc.adds + weeks[i].Additions,
                        rms     |-> acc.rms + weeks[i].Deletions,
                        commits |-> acc.commits + weeks[i].Commits])

\* add that leaves a record that exists as it is
addFirstWins(d, snc, cs) ==
    IF ~cs.hasAuthor \/ cs.login \in DOMAIN d
    THEN d
    ELSE LET sums == weekLoop(cs.weeks, snc, 1, [adds |-> 0, rms |-> 0, commits |-> 0])
             stat == [ZeroStat EXCEPT !.Additions = sums.adds,
                                      !.Deletions = sums.rms,
                                      !.Commits   = sums.commits]
         IN  IF stat.Additions + stat.Deletions + stat.Commits = 0 /\ ~IsZero(snc)
             THEN d
             ELSE Put(d, cs.login, stat)

\* add that discards on the sums of this entry, dropping the record
addForgetZero(d, snc, cs) ==
    IF ~cs.hasAuthor
    THEN d
    ELSE LET old  == For(d, cs.login)
             sums == weekLoop(cs.weeks, snc, 1, [adds |-> 0, rms |-> 0, commits |-> 0])
             stat == [old EXCEPT !.Additions = @ + sums.adds,
                                 !.Deletions = @ + sums.rms,
                                 !.Commits   = @ + sums.commits]
         IN  IF sums.adds + sums.rms + sums.commits = 0 /\ ~IsZero(snc)
             THEN [l \in (DOMAIN d) \ {cs.login} |-> d[l]]
             ELSE Put(d, cs.login, stat)

\* add that writes the sums of this entry over the record
addOverwrite(d, snc, cs) ==
    IF ~cs.hasAuthor
    THEN d
    ELSE LET old  == For(d, cs.login)
             sums == weekLoop(cs.weeks, snc, 1, [adds |-> 0, rms |-> 0, commits |-> 0])
             stat == [old EXCEPT !.Additions = sums.adds,
                                 !.Deletions = sums.rms,
                                 !.Commits   = sums.commits]
         IN  IF stat.Additions + stat.Deletions + stat.Commits = 0 /\ ~IsZero(snc)
             THEN d
             ELSE Put(d, cs.login, stat)

\* add without the zero-activity return
addKeepZero(d, snc, cs) ==
    IF ~cs.hasAuthor
    THEN d
    ELSE LET old  == For(d, cs.login)
             sums == weekLoop(cs.weeks, snc, 1, [adds |-> 0, rms |-> 0, commits |-> 0])
         IN  Put(d, cs.login, [old EXCEPT !.Additions = @ + sums.adds,
                                          !.Deletions = @ + sums.rms,
                                          !.Commits   = @ + sums.commits])

\* add with the zero-activity return taken whether or not since is set
addDropZero(d, snc, cs) ==
    IF ~cs.hasAuthor
    THEN d
    ELSE LET old  == For(d, cs.login)
             sums == weekLoop(cs.weeks, snc, 1, [adds |-> 0, rms |-> 0, commits |-> 0])
             stat == [old EXCEPT !.Additions = @ + sums.adds,
                                 !.Deletions = @ + sums.rms,
                                 !.Commits   = @ + sums.commits]
         IN  IF stat.Additions + stat.Deletions + stat.Commits = 0
             THEN d
             ELSE Put(d, cs.login, stat)

add(d, snc, cs) ==
    IF ~cs.hasAuthor
    THEN d
    ELSE LET old  == For(d, cs.login)
             sums == weekLoop(cs.weeks, snc, 1, [adds |-> 0, rms |-> 0, commits |-> 0])
             stat == [old EXCEPT !.Additions = @ + sums.adds,
                                 !.Deletions = @ + sums.rms,
                                 !.Commits   = @ + sums.commits]
         IN  IF stat.Additions + stat.Deletions + stat.Commits = 0 /\ ~IsZero(snc)
             THEN d
             ELSE Put(d, cs.login, stat)

----------------------------------------------------------------------------
\* Rate limit handling

RateLimitFloor == 5

SecondaryRateLimitFloor == 10

\* handleRateLimit with 5 s as a floor of the sleep
handleRateLimitFloor(reset, now) ==
    LET d == reset - now
    IN  IF d < RateLimitFloor THEN RateLimitFloor ELSE d

handleRateLimit(reset, now) ==
    LET d == reset - now
    IN  IF d < 0 THEN RateLimitFloor ELSE d

handleSecondaryRateLimit(retryAfter, now) ==
    LET d == retryAfter - now
    IN  IF d < 0 THEN SecondaryRateLimitFloor ELSE d

----------------------------------------------------------------------------
\* The upstream API

\* one page of a paginated listing: opt.Page = 0 asks for the first page
ListPage(pages, p) ==
    LET n == IF p = 0 THEN 1 ELSE p
    IN  [items |-> pages[n], NextPage |-> IF n < Len(pages) THEN n + 1 ELSE 0]

\* Rate.Reset / RetryAfter carried by a rate limit signal, and time.Now()
ResetTimes == {5, 10, 13, 18, 25}
Clock      == {10}

NoError == [op |-> "none", kind |-> "nil"]

FreshCall(op) ==
    [op |-> op, open |-> FALSE, attempts |-> 0, sleeps |-> 0,
     signal |-> "none", at |-> 0, now |-> 0, slept |-> 0]

\* the attempts of the call op so far
Current(op) == IF call.open /\ call.op = op THEN call ELSE FreshCall(op)

\* one more attempt of the upstream call op, answered by signal
Attempt(op, signal, at, now, slept, sleeps, retry) ==
    LET base == Current(op)
    IN  [op |-> op, open |-> retry, attempts |-> base.attempts + 1,
         sleeps |-> base.sleeps + sleeps,
         signal |-> signal, at |-> at, now |-> now, slept |-> slept]

\* the call answers with a primary or secondary rate limit: sleep, then retry
RateLimited(op) ==
    /\ Current(op).attempts < MaxTransient
    /\ \E at \in ResetTimes, now \in Clock :
         \/ call' = Attempt(op, "rate", at, now, handleRateLimit(at, now), 1, TRUE)
         \/ call' = Attempt(op, "secondary", at, now,
                            handleSecondaryRateLimit(at, now), 1, TRUE)

\* the call answers 202 Accepted and is retried at once
AcceptedRetried(op) ==
    /\ Current(op).attempts < MaxTransient
    /\ call' = Attempt(op, "accepted", 0, 0, 0, 0, TRUE)

Succeeded(op) == call' = Attempt(op, "ok", 0, 0, 0, 0, FALSE)

\* Gather returns the records accumulated so far along with the error
FailedPartial(op, kind) ==
    /\ call' = Attempt(op, kind, 0, 0, 0, 0, FALSE)
    /\ pc' = "done"
    /\ ret' = [stats |-> data, err |-> [op |-> op, kind |-> kind]]

\* Gather returns Stats{}, err
Failed(op, kind) ==
    /\ call' = Attempt(op, kind, 0, 0, 0, 0, FALSE)
    /\ pc' = "done"
    /\ ret' = [stats |-> NewStats, err |-> [op |-> op, kind |-> kind]]

----------------------------------------------------------------------------
\* Organizations and arguments the run is checked on

Week(t, ad, de, co) == [Week |-> t, Additions |-> ad, Deletions |-> de, Commits |-> co]

Contributor(login, weeks) == [hasAuthor |-> TRUE, login |-> login, weeks |-> weeks]

Anonymous(weeks) == [hasAuthor |-> FALSE, login |-> NoLogin, weeks |-> weeks]

Repo(name, fork) == [Name |-> name, Fork |-> fork]

MemberListings ==
    { << <<>> >>,
      << <<al>>, <<bo>> >>,
      << <<bo, AL>>, <<al, bo>> >> }

RepoListings ==
    { << <<Repo(web, FALSE)>> >>,
      << <<Repo(api, FALSE), Repo(web, TRUE)>>, <<Repo(WEB, FALSE), Repo(cli, FALSE)>> >>,
      << <<Repo(WEB, TRUE)>>, <<Repo(api, FALSE)>>, <<Repo(web, FALSE)>> >> }

Org1 ==
    [n \in RepoNames |->
        CASE n = web -> << Contributor(al, <<Week(1, 3, 1, 1), Week(2, 2, 0, 1)>>),
                           Contributor(bo, <<Week(1, 1, 1, 1)>>) >>
          [] n = WEB -> << Contributor(AL, <<Week(3, 1, 0, 1)>>),
                           Anonymous(<<Week(3, 1, 1, 1)>>) >>
          [] n = api -> << Contributor(al, <<Week(3, 0, 0, 0)>>),
                           Contributor(bo, <<Week(2, 0, 0, 0), Week(3, 0, 0, 0)>>) >>
          [] OTHER   -> << >>]

Org2 ==
    [n \in RepoNames |->
        CASE n = web -> << Contributor(NoLogin, <<Week(3, 1, 1, 1)>>),
                           Contributor(bo, <<Week(2, 1, 2, 1)>>) >>
          [] n = WEB -> << Contributor(bo, <<Week(3, 0, 1, 0)>>) >>
          [] n = api -> << Contributor(AL, <<Week(1, 0, 0, 0)>>),
                           Contributor(bo, <<Week(1, 2, 0, 1), Week(3, 1, 0, 0)>>),
                           Contributor(al, <<Week(1, 1, 1, 1), Week(3, 0, 1, 0)>>) >>
          [] OTHER   -> << Contributor(al, <<Week(2, 0, 0, 0)>>) >>]

Organizations == {Org1, Org2}

ReviewTotals == {[l \in UserLogins |-> CASE l = al -> 4 [] l = AL -> 2 [] OTHER -> 0]}

\* the configured lists: entries are scoped by a user: or repo: prefix
Blacklists ==
    { <<>>,
      << UserPrefix \o Al >>,
      << UserPrefix \o bo >>,
      << RepoPrefix \o WEB >>,
      << UserPrefix \o Al, RepoPrefix \o WEB >>,
      << RepoPrefix \o WEB, UserPrefix \o bo >> }

Whitelists ==
    { <<>>,
      << UserPrefix \o BO, RepoPrefix \o web >>,
      << UserPrefix \o al, RepoPrefix \o api, UserPrefix \o bo >> }

UserBlacklists == { <<>>, <<Al>>, <<bo>> }
UserWhitelists == { <<>>, <<BO>>, <<al, bo>> }
RepoBlacklists == { <<>>, <<WEB>> }
Sinces         == {0, 2}

----------------------------------------------------------------------------
\* The run

Idle == FreshCall("none")

\* Gather is about to run
Start ==
    /\ pc = "getOrgMembers"
    /\ page = 0
    /\ members = {}
    /\ allRepos = <<>>
    /\ repoIdx = 1
    /\ stats = <<>>
    /\ csIdx = 1
    /\ data = NewStats
    /\ pending = {}
    /\ user = NoLogin
    /\ ret = [stats |-> NewStats, err |-> NoError]
    /\ call = Idle
    /\ served = <<>>
    /\ statsLog = <<>>
    /\ addLog = <<>>

Init ==
    /\ rawBlacklist \in Blacklists
    /\ rawWhitelist \in Whitelists
    /\ userBlacklist = buildBlacklists(rawBlacklist)[1]
    /\ repoBlacklist = buildBlacklists(rawBlacklist)[2]
    /\ userWhitelist = buildWhitelists(rawWhitelist)[1]
    /\ repoWhitelist = buildWhitelists(rawWhitelist)[2]
    /\ userBlacklist \in UserBlacklists
    /\ repoBlacklist \in RepoBlacklists
    /\ userWhitelist \in UserWhitelists
    /\ since \in Sinces
    /\ includeReviewStats \in BOOLEAN
    /\ excludeForks \in BOOLEAN
    /\ memberPages \in MemberListings
    /\ repoPages \in RepoListings
    /\ contributorStats \in Organizations
    /\ reviewTotals \in ReviewTotals
    /\ Start

\* getOrgMembers: ListMembers is rate limited
MembersRateLimited ==
    /\ pc = "getOrgMembers"
    /\ RateLimited("ListMembers")
    /\ UNCHANGED <<config, upstream, pc, page, members, allRepos, repoIdx, stats,
                   csIdx, data, pending, user, ret, served, statsLog, addLog>>

\* getOrgMembers: any other error of ListMembers, 202 Accepted included
MembersFailed ==
    /\ pc = "getOrgMembers"
    /\ \E kind \in {"accepted", "error"} : Failed("ListMembers", kind)
    /\ UNCHANGED <<config, upstream, page, members, allRepos, repoIdx, stats,
                   csIdx, data, pending, user, served, statsLog, addLog>>

\* MembersPage with the map made anew for every page
MembersPageOverwrite ==
    /\ pc = "getOrgMembers"
    /\ Succeeded("ListMembers")
    /\ LET resp == ListPage(memberPages, page)
       IN  /\ members' = {resp.items[i] : i \in 1..Len(resp.items)}
           /\ served' = Append(served, <<"ListMembers", IF page = 0 THEN 1 ELSE page>>)
           /\ IF resp.NextPage = 0
              THEN pc' = "repos" /\ page' = 0
              ELSE pc' = pc /\ page' = resp.NextPage
    /\ UNCHANGED <<config, upstream, allRepos, repoIdx, stats, csIdx, data,
                   pending, user, ret, statsLog, addLog>>

\* getOrgMembers: one page of members
MembersPage ==
    /\ pc = "getOrgMembers"
    /\ Succeeded("ListMembers")
    /\ LET resp == ListPage(memberPages, page)
       IN  /\ members' = members \cup {resp.items[i] : i \in 1..Len(resp.items)}
           /\ served' = Append(served, <<"ListMembers", IF page = 0 THEN 1 ELSE page>>)
           /\ IF resp.NextPage = 0
              THEN pc' = "repos" /\ page' = 0
              ELSE pc' = pc /\ page' = resp.NextPage
    /\ UNCHANGED <<config, upstream, allRepos, repoIdx, stats, csIdx, data,
                   pending, user, ret, statsLog, addLog>>

\* repos: ListByOrg is rate limited
ReposRateLimited ==
    /\ pc = "repos"
    /\ RateLimited("ListByOrg")
    /\ UNCHANGED <<config, upstream, pc, page, members, allRepos, repoIdx, stats,
                   csIdx, data, pending, user, ret, served, statsLog, addLog>>

\* repos: any other error of ListByOrg, 202 Accepted included
ReposFailed ==
    /\ pc = "repos"
    /\ \E kind \in {"accepted", "error"} : Failed("ListByOrg", kind)
    /\ UNCHANGED <<config, upstream, page, members, allRepos, repoIdx, stats,
                   csIdx, data, pending, user, served, statsLog, addLog>>

\* ReposPage with the page assigned to allRepos in place of appended
ReposPageReplace ==
    /\ pc = "repos"
    /\ Succeeded("ListByOrg")
    /\ LET resp == ListPage(repoPages, page)
       IN  /\ allRepos' = resp.items
           /\ served' = Append(served, <<"ListByOrg", IF page = 0 THEN 1 ELSE page>>)
           /\ IF resp.NextPage = 0
              THEN pc' = "loop" /\ page' = 0
              ELSE pc' = pc /\ page' = resp.NextPage
    /\ UNCHANGED <<config, upstream, members, repoIdx, stats, csIdx, data,
                   pending, user, ret, statsLog, addLog>>

\* repos: one page of repositories
ReposPage ==
    /\ pc = "repos"
    /\ Succeeded("ListByOrg")
    /\ LET resp == ListPage(repoPages, page)
       IN  /\ allRepos' = allRepos \o resp.items
           /\ served' = Append(served, <<"ListByOrg", IF page = 0 THEN 1 ELSE page>>)
           /\ IF resp.NextPage = 0
              THEN pc' = "loop" /\ page' = 0
              ELSE pc' = pc /\ page' = resp.NextPage
    /\ UNCHANGED <<config, upstream, members, repoIdx, stats, csIdx, data,
                   pending, user, ret, statsLog, addLog>>

\* the repository checks with the repo whitelist consulted first
skipRepoUnlessAllowed(forks, blacklist, repo) ==
    /\ ~isWhitelisted(repoWhitelist, repo.Name)
    /\ \/ forks /\ repo.Fork
       \/ isBlacklisted(blacklist, repo.Name)

\* the repository checks without the fork check
skipRepoKeepForks(forks, blacklist, repo) == isBlacklisted(blacklist, repo.Name)

\* gatherLineStats: whether the repository is passed over
skipRepo(forks, blacklist, repo) ==
    \/ forks /\ repo.Fork
    \/ isBlacklisted(blacklist, repo.Name)

\* the loop head that stays on a repository it passes over
RepoLoopStuck ==
    /\ pc = "loop"
    /\ repoIdx <= Len(allRepos)
    /\ LET repo == allRepos[repoIdx]
       IN  IF skipRepo(excludeForks, repoBlacklist, repo)
           THEN UNCHANGED <<pc, statsLog, repoIdx>>
           ELSE /\ pc' = "getStats"
                /\ statsLog' = Append(statsLog, repo.Name)
                /\ UNCHANGED repoIdx
    /\ call' = Idle
    /\ UNCHANGED <<config, upstream, page, members, allRepos, stats, csIdx, data,
                   pending, user, ret, served, addLog>>

\* gatherLineStats: the head of one iteration of the loop over allRepos
RepoLoop ==
    /\ pc = "loop"
    /\ repoIdx <= Len(allRepos)
    /\ LET repo == allRepos[repoIdx]
       IN  IF skipRepo(excludeForks, repoBlacklist, repo)
           THEN /\ repoIdx' = repoIdx + 1
                /\ UNCHANGED <<pc, statsLog>>
           ELSE /\ pc' = "getStats"
                /\ statsLog' = Append(statsLog, repo.Name)
                /\ UNCHANGED repoIdx
    /\ call' = Idle
    /\ UNCHANGED <<config, upstream, page, members, allRepos, stats, csIdx, data,
                   pending, user, ret, served, addLog>>

\* gatherLineStats returns nil; Gather returns allStats or starts the review pass
LineStatsDone ==
    /\ pc = "loop"
    /\ repoIdx > Len(allRepos)
    /\ IF includeReviewStats
       THEN /\ pc' = "reviews"
            /\ pending' = Logins(data)
            /\ UNCHANGED ret
       ELSE /\ pc' = "done"
            /\ ret' = [stats |-> data, err |-> NoError]
            /\ UNCHANGED pending
    /\ call' = Idle
    /\ UNCHANGED <<config, upstream, page, members, allRepos, repoIdx, stats, csIdx,
                   data, user, served, statsLog, addLog>>

\* getStats: a rate limit or 202 Accepted; getStats calls itself again
StatsRetried ==
    /\ pc = "getStats"
    /\ \/ RateLimited("ListContributorsStats")
       \/ AcceptedRetried("ListContributorsStats")
    /\ UNCHANGED <<config, upstream, pc, page, members, allRepos, repoIdx, stats,
                   csIdx, data, pending, user, ret, served, statsLog, addLog>>

\* getStats: any other error
StatsFailed ==
    /\ pc = "getStats"
    /\ Failed("ListContributorsStats", "error")
    /\ UNCHANGED <<config, upstream, page, members, allRepos, repoIdx, stats,
                   csIdx, data, pending, user, served, statsLog, addLog>>

\* getStats returns the contributor stats of the repository
StatsFetched ==
    /\ pc = "getStats"
    /\ Succeeded("ListContributorsStats")
    /\ stats' = contributorStats[allRepos[repoIdx].Name]
    /\ csIdx' = 1
    /\ IF Len(stats') = 0
       THEN pc' = "loop" /\ repoIdx' = repoIdx + 1
       ELSE pc' = "contributors" /\ UNCHANGED repoIdx
    /\ UNCHANGED <<config, upstream, page, members, allRepos, data, pending, user,
                   ret, served, statsLog, addLog>>

\* skipContributor without the membership and allow-list check
skipContributorAnyone(orgMembers, whitelist, blacklist, cs) ==
    \/ ~cs.hasAuthor \/ cs.login = NoLogin
    \/ isBlacklisted(blacklist, cs.login)

\* gatherLineStats: whether the contributor entry is passed over
skipContributor(orgMembers, whitelist, blacklist, cs) ==
    \/ ~cs.hasAuthor \/ cs.login = NoLogin
    \/ cs.login \notin orgMembers /\ ~isWhitelisted(whitelist, cs.login)
    \/ isBlacklisted(blacklist, cs.login)

\* gatherLineStats: one iteration of the loop over the contributors
ContributorLoop ==
    /\ pc = "contributors"
    /\ LET cs == stats[csIdx]
       IN  IF skipContributor(members, userWhitelist, userBlacklist, cs)
           THEN UNCHANGED <<data, addLog>>
           ELSE /\ data' = add(data, since, cs)
                /\ addLog' = Append(addLog, [repo |-> repoIdx, cs |-> csIdx])
    /\ IF csIdx < Len(stats)
       THEN csIdx' = csIdx + 1 /\ UNCHANGED <<pc, repoIdx>>
       ELSE pc' = "loop" /\ repoIdx' = repoIdx + 1 /\ UNCHANGED csIdx
    /\ call' = Idle
    /\ UNCHANGED <<config, upstream, page, members, allRepos, stats, pending, user,
                   ret, served, statsLog>>

\* Gather: the loop over allStats.data takes the next user, in any order
ReviewUser ==
    /\ pc = "reviews"
    /\ \E u \in pending : user' = u
    /\ pc' = "search"
    /\ call' = Idle
    /\ UNCHANGED <<config, upstream, page, members, allRepos, repoIdx, stats, csIdx,
                   data, pending, ret, served, statsLog, addLog>>

\* Gather: the loop over allStats.data is over; Gather returns allStats
ReviewsDone ==
    /\ pc = "reviews"
    /\ pending = {}
    /\ pc' = "done"
    /\ ret' = [stats |-> data, err |-> NoError]
    /\ call' = Idle
    /\ UNCHANGED <<config, upstream, page, members, allRepos, repoIdx, stats, csIdx,
                   data, pending, user, served, statsLog, addLog>>

\* search that adds the total of the retried attempt as well
SearchRetriedCounted ==
    /\ pc = "search"
    /\ \/ RateLimited("Search")
       \/ AcceptedRetried("Search")
    /\ data' = addReviewStats(data, user, reviewTotals[user])
    /\ UNCHANGED <<config, upstream, pc, page, members, allRepos, repoIdx, stats,
                   csIdx, pending, user, ret, served, statsLog, addLog>>

\* search: a rate limit or 202 Accepted; search calls itself again
SearchRetried ==
    /\ pc = "search"
    /\ \/ RateLimited("Search")
       \/ AcceptedRetried("Search")
    /\ UNCHANGED <<config, upstream, pc, page, members, allRepos, repoIdx, stats,
                   csIdx, data, pending, user, ret, served, statsLog, addLog>>

\* search: any other error
SearchFailed ==
    /\ pc = "search"
    /\ Failed("Search", "error")
    /\ UNCHANGED <<config, upstream, page, members, allRepos, repoIdx, stats,
                   csIdx, data, pending, user, served, statsLog, addLog>>

\* gatherReviewStats: search returns the total, addReviewStats adds it
SearchFound ==
    /\ pc = "search"
    /\ Succeeded("Search")
    /\ data' = addReviewStats(data, user, reviewTotals[user])
    /\ pending' = pending \ {user}
    /\ pc' = "reviews"
    /\ UNCHANGED <<config, upstream, page, members, allRepos, repoIdx, stats, csIdx,
                   user, ret, served, statsLog, addLog>>

Next ==
    \/ MembersRateLimited \/ MembersFailed \/ MembersPage
    \/ ReposRateLimited \/ ReposFailed \/ ReposPage
    \/ RepoLoop \/ LineStatsDone
    \/ StatsRetried \/ StatsFailed \/ StatsFetched
    \/ ContributorLoop
    \/ ReviewUser \/ ReviewsDone
    \/ SearchRetried \/ SearchFailed \/ SearchFound

Spec == Init /\ [][Next]_vars

----------------------------------------------------------------------------
\* Runs over the same organization enumerated in different orders, and with
\* lists that differ in their repo: allow entries alone

OrderedRepos == <<Repo(api, FALSE), Repo(WEB, FALSE), Repo(cli, TRUE)>>

\* every enumeration order of the repositories, two to a page
OrderListings ==
    { << <<OrderedRepos[p[1]], OrderedRepos[p[2]]>>, <<OrderedRepos[p[3]]>> >> :
        p \in Permutations(1..Len(OrderedRepos)) }

Reversed(x) == [i \in 1..Len(x) |-> x[Len(x) + 1 - i]]

\* the contributors of each repository in either order
OrderOrganizations == {Org2, [n \in RepoNames |-> Reversed(Org2[n])]}

OrderBlacklists == { <<>>, << RepoPrefix \o WEB >> }

OrderWhitelists ==
    { << UserPrefix \o AL >>,
      << UserPrefix \o AL, RepoPrefix \o WEB >>,
      << RepoPrefix \o api, UserPrefix \o AL, RepoPrefix \o cli >> }

InitOrders ==
    /\ rawBlacklist \in OrderBlacklists
    /\ rawWhitelist \in OrderWhitelists
    /\ userBlacklist = buildBlacklists(rawBlacklist)[1]
    /\ repoBlacklist = buildBlacklists(rawBlacklist)[2]
    /\ userWhitelist = buildWhitelists(rawWhitelist)[1]
    /\ repoWhitelist = buildWhitelists(rawWhitelist)[2]
    /\ since \in Sinces
    /\ includeReviewStats \in BOOLEAN
    /\ excludeForks \in BOOLEAN
    /\ memberPages = << <<bo>>, <<bo>> >>
    /\ repoPages \in OrderListings
    /\ contributorStats \in OrderOrganizations
    /\ reviewTotals \in ReviewTotals
    /\ Start

OrderSpec == InitOrders /\ [][Next]_vars

\* Gather runs in one goroutine that takes its next step whenever it has one;
\* every call gets an answer that is no transient signal after at most
\* MaxTransient of them
FairSpec == OrderSpec /\ WF_vars(Next)

----------------------------------------------------------------------------
\* The command splits its configured lists before it calls Gather

ListEntries ==
    { UserPrefix \o al,
      RepoPrefix \o web,
      bo,
      UserPrefix,
      RepoPrefix \o UserPrefix \o al,
      <<"U", "S", "E", "R", ":">> \o al }

\* the lists of at most n entries
RECURSIVE ListsUpTo(_)
ListsUpTo(n) ==
    IF n = 0
    THEN { <<>> }
    ELSE LET shorter == ListsUpTo(n - 1)
         IN  shorter \cup {Append(x, e) : x \in shorter, e \in ListEntries}

InitLists ==
    /\ rawBlacklist \in ListsUpTo(MaxEntries)
    /\ rawWhitelist \in ListsUpTo(MaxEntries)
    /\ userBlacklist = <<>>
    /\ repoBlacklist = <<>>
    /\ userWhitelist = <<>>
    /\ repoWhitelist = <<>>
    /\ since = 0
    /\ includeReviewStats = FALSE
    /\ excludeForks = FALSE
    /\ memberPages = << <<>> >>
    /\ repoPages = << <<>> >>
    /\ contributorStats = Org1
    /\ reviewTotals \in ReviewTotals
    /\ pc = "cmd"
    /\ page = 0
    /\ members = {}
    /\ allRepos = <<>>
    /\ repoIdx = 1
    /\ stats = <<>>
    /\ csIdx = 1
    /\ data = NewStats
    /\ pending = {}
    /\ user = NoLogin
    /\ ret = [stats |-> NewStats, err |-> NoError]
    /\ call = Idle
    /\ served = <<>>
    /\ statsLog = <<>>
    /\ addLog = <<>>

\* buildBlacklists and buildWhitelists are applied to the configured lists
BuildLists ==
    /\ pc = "cmd"
    /\ userBlacklist' = buildBlacklists(rawBlacklist)[1]
    /\ repoBlacklist' = buildBlacklists(rawBlacklist)[2]
    /\ userWhitelist' = buildWhitelists(rawWhitelist)[1]
    /\ repoWhitelist' = buildWhitelists(rawWhitelist)[2]
    /\ pc' = "built"
    /\ UNCHANGED <<rawBlacklist, rawWhitelist, since, includeReviewStats, excludeForks,
                   upstream, page, members, allRepos, repoIdx, stats, csIdx, data,
                   pending, user, ret, call, served, statsLog, addLog>>

ListSpec == InitLists /\ [][BuildLists]_vars

----------------------------------------------------------------------------
\* Vocabulary of the properties

Done == pc = "done"

Returned == Done /\ ret.err = NoError

Fold(x) == [i \in 1..Len(x) |-> ToLower(x[i])]

\* x equals an entry of list when case is ignored
Matches(list, x) == \E i \in 1..Len(list) : Fold(list[i]) = Fold(x)

\* the logins the member listing holds, over all its pages
Listed == UNION { {memberPages[p][i] : i \in 1..Len(memberPages[p])} :
                    p \in 1..Len(memberPages) }

\* the indexes in allRepos of the repositories that are neither an excluded fork
\* nor on the repository deny-list
Kept == {i \in 1..Len(allRepos) :
            /\ ~(excludeForks /\ allRepos[i].Fork)
            /\ ~Matches(repoBlacklist, allRepos[i].Name)}

StatsOf(i) == contributorStats[allRepos[i].Name]

\* the line-stat collection is over
Collected == pc \in {"reviews", "search"} \/ Returned

----------------------------------------------------------------------------
\* C1: a user whose login equals a user-deny entry, case ignored, has no record
\* in the Aggregate, during the run and in what Gather returns, member or
\* allow-listed or not; and no contributor entry of a repository whose name
\* equals a repo-deny entry, case ignored, is ever added, nor are its stats
\* fetched.
C1_DenyListsExclude ==
    /\ \A l \in Logins(data) \cup Logins(ret.stats) : ~Matches(userBlacklist, l)
    /\ \A k \in 1..Len(addLog) :
          ~Matches(repoBlacklist, allRepos[addLog[k].repo].Name)
    /\ \A k \in 1..Len(statsLog) : ~Matches(repoBlacklist, statsLog[k])

\* Gather returned an Aggregate with records, while a denied login that is a
\* member and allow-listed had stats in a fetched repository, and a denied
\* repository had contributors
C1_Witness ==
    /\ Returned
    /\ Logins(ret.stats) # {}
    /\ \E l \in UserLogins :
          /\ Matches(userBlacklist, l) /\ Matches(userWhitelist, l) /\ l \in members
          /\ \E i \in Kept : \E j \in 1..Len(StatsOf(i)) :
                /\ StatsOf(i)[j].login = l
                /\ StatsOf(i)[j].weeks[1].Additions > 0
    /\ \E i \in 1..Len(allRepos) :
          /\ Matches(repoBlacklist, allRepos[i].Name)
          /\ ~allRepos[i].Fork
          /\ \E j \in 1..Len(StatsOf(i)) : StatsOf(i)[j].login \in members

----------------------------------------------------------------------------
\* The Aggregate of a run that records login l alone, as it records a member:
\* every entry of l in a kept repository is added, in the order of the run,
\* and the review total follows when reviews are counted.
RECURSIVE MemberFold(_, _, _, _)
MemberFold(l, i, j, d) ==
    IF i > Len(allRepos)
    THEN d
    ELSE IF i \notin Kept \/ j > Len(StatsOf(i))
         THEN MemberFold(l, i + 1, 1, d)
         ELSE LET cs == StatsOf(i)[j]
              IN  MemberFold(l, i, j + 1,
                             IF cs.hasAuthor /\ cs.login = l THEN add(d, since, cs) ELSE d)

AsMember(l) ==
    LET d == MemberFold(l, 1, 1, NewStats)
    IN  IF includeReviewStats /\ l \in Logins(d)
        THEN addReviewStats(d, l, reviewTotals[l])
        ELSE d

C3_OnlyMembersOrAllowed ==
    /\ \A l \in Logins(data) \cup Logins(ret.stats) :
          l \in members \/ Matches(userWhitelist, l)
    /\ Len(userWhitelist) = 0 =>
          /\ \A l \in UserLogins \cup {NoLogin} : ~isWhitelisted(userWhitelist, l)
          /\ Logins(data) \subseteq Listed

\* Gather returned records, after passing over a contributor with stats that
\* is neither a member nor allow-listed nor denied
C3_Witness ==
    /\ Returned
    /\ Logins(ret.stats) # {}
    /\ \E i \in Kept : \E j \in 1..Len(StatsOf(i)) :
          LET cs == StatsOf(i)[j]
          IN  /\ cs.hasAuthor /\ cs.login # NoLogin
              /\ cs.login \notin members
              /\ ~Matches(userWhitelist, cs.login)
              /\ ~Matches(userBlacklist, cs.login)
              /\ cs.weeks[1].Additions > 0
              /\ cs.login \notin Logins(ret.stats)

\* getOrgMembers has returned its map
MembersReturned ==
    /\ pc # "getOrgMembers"
    /\ ~(Done /\ ret.err.op = "ListMembers")

\* C4: the map getOrgMembers returns holds exactly the logins of the member
\* listing over all its pages: every listed login reads true, every other
\* login reads false, and its size is the number of distinct listed logins.
C4_MembersExact ==
    MembersReturned =>
        /\ \A l \in UserLogins \cup {NoLogin} : l \in members <=> l \in Listed
        /\ Cardinality(members) = Cardinality(Listed)

\* getOrgMembers returned after two pages that repeat a login
C4_Witness ==
    /\ MembersReturned
    /\ Len(memberPages) = 2
    /\ Cardinality(members) = 3
    /\ Len(memberPages[1]) + Len(memberPages[2]) = 4

----------------------------------------------------------------------------
LineFields == {"Additions", "Deletions", "Commits"}

\* week i of entry cs is not before the cutoff, or there is no cutoff
Counted(cs, i) == since = 0 \/ cs.weeks[i].Week >= since

\* what the weeks i.. of entry cs are to add to field f
RECURSIVE SumWeeks(_, _, _)
SumWeeks(cs, i, f) ==
    IF i > Len(cs.weeks)
    THEN 0
    ELSE (IF Counted(cs, i) THEN cs.weeks[i][f] ELSE 0) + SumWeeks(cs, i + 1, f)

\* the entry has a login that is a member or allow-listed, and not denied
Included(cs) ==
    /\ cs.hasAuthor /\ cs.login # NoLogin
    /\ cs.login \in members \/ Matches(userWhitelist, cs.login)
    /\ ~Matches(userBlacklist, cs.login)

\* C5: with a since cutoff, one pass of the contributor loop over an included
\* entry raises each of additions, deletions and commits of that login, as
\* read by For, by the sum over the entry's weeks of: zero for a week that
\* starts strictly before the cutoff, the week's own value for a week at or
\* after it; an entry that is not included changes nothing.
C5_CutoffPerWeek ==
    [][ (since # 0 /\ pc = "contributors") =>
            LET cs == stats[csIdx]
            IN  IF Included(cs)
                THEN \A f \in LineFields :
                        For(data', cs.login)[f] = For(data, cs.login)[f] + SumWeeks(cs, 1, f)
                ELSE data' = data ]_vars

\* with a cutoff, the one entry added so far has a week with additions before
\* the cutoff and a week with additions that starts exactly at the cutoff, and
\* the record holds the second alone
C5_Witness ==
    /\ since # 0
    /\ Len(addLog) = 1
    /\ LET cs == StatsOf(addLog[1].repo)[addLog[1].cs]
       IN  /\ \E i \in 1..Len(cs.weeks) :
                 cs.weeks[i].Week < since /\ cs.weeks[i].Additions > 0
           /\ \E i \in 1..Len(cs.weeks) :
                 /\ cs.weeks[i].Week = since /\ cs.weeks[i].Additions > 0
                 /\ For(data, cs.login).Additions = cs.weeks[i].Additions

\* what all entries of login l in the kept repositories i.. are to add, the
\* three fields together
RECURSIVE Qualifying(_, _, _)
Qualifying(l, i, j) ==
    IF i > Len(allRepos)
    THEN 0
    ELSE IF i \notin Kept \/ j > Len(StatsOf(i))
         THEN Qualifying(l, i + 1, 1)
         ELSE LET cs == StatsOf(i)[j]
              IN  (IF cs.hasAuthor /\ cs.login = l
                   THEN SumWeeks(cs, 1, "Additions") + SumWeeks(cs, 1, "Deletions")
                        + SumWeeks(cs, 1, "Commits")
                   ELSE 0) + Qualifying(l, i, j + 1)

\* login l has an entry in a kept repository
HasEntry(l) ==
    \E i \in Kept : \E j \in 1..Len(StatsOf(i)) :
        StatsOf(i)[j].hasAuthor /\ StatsOf(i)[j].login = l

\* C6: with a since cutoff, at every point of the run and in what Gather
\* returns, review pass included, every record has additions + deletions +
\* commits > 0, and a login whose weeks at or after the cutoff sum to zero over
\* the repositories of the run has no record.
C6_NoZeroRecordUnderCutoff ==
    since # 0 =>
        /\ \A l \in Logins(data) :
              data[l].Additions + data[l].Deletions + data[l].Commits > 0
        /\ \A l \in Logins(ret.stats) :
              ret.stats[l].Additions + ret.stats[l].Deletions + ret.stats[l].Commits > 0
        /\ \A l \in UserLogins :
              Qualifying(l, 1, 1) = 0 => l \notin Logins(data) \cup Logins(ret.stats)

\* with a cutoff and the review pass, Gather returned records, and none for
\* an included login whose only additions lie before the cutoff
C6_Witness ==
    /\ Returned /\ since # 0 /\ includeReviewStats
    /\ Logins(ret.stats) # {}
    /\ \E l \in UserLogins :
          /\ l \in members /\ ~Matches(userBlacklist, l)
          /\ \E i \in Kept : \E j \in 1..Len(StatsOf(i)) :
                /\ StatsOf(i)[j].login = l
                /\ StatsOf(i)[j].weeks[1].Week < since
                /\ StatsOf(i)[j].weeks[1].Additions > 0
          /\ Qualifying(l, 1, 1) = 0
          /\ l \notin Logins(ret.stats)

\* login l is recorded by the run and all its weekly values are zero
ZeroContributor(l) ==
    /\ l \in members \/ Matches(userWhitelist, l)
    /\ ~Matches(userBlacklist, l)
    /\ HasEntry(l)
    /\ \A i \in Kept : \A j \in 1..Len(StatsOf(i)) :
          StatsOf(i)[j].login = l =>
              \A k \in 1..Len(StatsOf(i)[j].weeks) :
                  LET w == StatsOf(i)[j].weeks[k]
                  IN  w.Additions = 0 /\ w.Deletions = 0 /\ w.Commits = 0

\* C7 as claimed: with no cutoff, an included contributor whose weekly stats
\* are all zero is in Logins() after Gather with a record whose four fields
\* are zero.
C7_ZeroRecordAllFields ==
    (Returned /\ since = 0) =>
        \A l \in UserLogins :
            ZeroContributor(l) => l \in Logins(ret.stats) /\ ret.stats[l] = ZeroStat

\* C7 as amended: with no cutoff, an included contributor whose weekly stats
\* are all zero is in Logins() after Gather with additions, deletions and
\* commits zero; reviews is zero when review stats are off and the total of
\* the review search for that login when they are on.
C7_ZeroRecordKept ==
    (Returned /\ since = 0) =>
        \A l \in UserLogins :
            ZeroContributor(l) =>
                /\ l \in Logins(ret.stats)
                /\ ret.stats[l] = Stat(0, 0, 0, IF includeReviewStats THEN reviewTotals[l] ELSE 0)

\* with no cutoff Gather returned an all-zero record for a contributor whose
\* weekly stats are all zero
C7_Witness ==
    /\ Returned /\ since = 0
    /\ \E l \in UserLogins :
          ZeroContributor(l) /\ l \in Logins(ret.stats) /\ ret.stats[l] = ZeroStat

----------------------------------------------------------------------------
\* the pages 1..n of a listing, page after page, the items of a page in order
RECURSIVE Flatten(_, _)
Flatten(pages, n) ==
    IF n = 0 THEN <<>> ELSE Flatten(pages, n - 1) \o pages[n]

\* the page numbers the upstream served for the listing op, in order
RECURSIVE ServedPages(_, _)
ServedPages(op, n) ==
    IF n = 0
    THEN <<>>
    ELSE IF served[n][1] = op
         THEN Append(ServedPages(op, n - 1), served[n][2])
         ELSE ServedPages(op, n - 1)

Upto(n) == [k \in 1..n |-> k]

\* repos has returned its list
ReposReturned ==
    /\ pc \notin {"getOrgMembers", "repos"}
    /\ ~(Done /\ ret.err.op \in {"ListMembers", "ListByOrg"})

\* C8: when repos returns, allRepos is the items of the N pages of the
\* listing in page-then-item order, N x M of them when every page has M, none
\* twice and none missing, and each page 1..N was served once, in order; when
\* getOrgMembers returns, each page 1..N of the member listing was served
\* once, in order, and the map holds the items of all of them.  While a
\* listing is under way the result is that of the pages served so far.  All
\* this with rate limit signals between the page fetches.
C8_PagesConcatenated ==
    /\ ReposReturned =>
          /\ allRepos = Flatten(repoPages, Len(repoPages))
          /\ ServedPages("ListByOrg", Len(served)) = Upto(Len(repoPages))
          /\ (\A p \in 1..Len(repoPages) : Len(repoPages[p]) = Len(repoPages[1]))
                => Len(allRepos) = Len(repoPages) * Len(repoPages[1])
          /\ \A i, j \in 1..Len(allRepos) : allRepos[i] = allRepos[j] => i = j
    /\ pc = "repos" =>
          \E n \in 0..Len(repoPages) :
              /\ ServedPages("ListByOrg", Len(served)) = Upto(n)
              /\ allRepos = Flatten(repoPages, n)
    /\ MembersReturned =>
          /\ ServedPages("ListMembers", Len(served)) = Upto(Len(memberPages))
          /\ members = Listed
    /\ pc = "getOrgMembers" =>
          \E n \in 0..Len(memberPages) :
              /\ ServedPages("ListMembers", Len(served)) = Upto(n)
              /\ \A l \in UserLogins :
                    l \in members <=>
                        \E p \in 1..n : \E i \in 1..Len(memberPages[p]) : memberPages[p][i] = l

\* repos has just returned three pages, the last of them after a rate limit
\* and its sleep, the member listing before it having had two pages
C8_Witness ==
    /\ pc = "loop" /\ repoIdx = 1
    /\ call.op = "ListByOrg" /\ call.signal = "ok" /\ call.sleeps = 1
    /\ Len(repoPages) = 3 /\ Len(allRepos) = 3
    /\ Len(memberPages) = 2 /\ Cardinality(members) = 2

Max(x, y) == IF x > y THEN x ELSE y

Transient == {"rate", "secondary", "accepted"}

\* C10: no transient signal (primary rate limit, secondary rate limit, 202
\* Accepted) ends a call or is returned by Gather as its error: after such a
\* signal the same call is tried again.
C10_TransientNeverSurfaced ==
    /\ ret.err.kind \notin Transient
    /\ call.signal \in Transient => call.open /\ ~Done

----------------------------------------------------------------------------
\* C11: a run fails fast and hands back nothing partial. When an upstream call
\* ends in an error, Gather returns that error with an empty Aggregate: no login,
\* the zero record for every user, whatever had been accumulated; the failing
\* attempt is the last upstream call of the run; and nothing is handed back
\* before Gather returns.
C11_FailFastNoPartial ==
    /\ (Done /\ ret.err # NoError) =>
          /\ Logins(ret.stats) = {}
          /\ \A l \in UserLogins : For(ret.stats, l) = ZeroStat
          /\ call.op = ret.err.op /\ call.signal = ret.err.kind /\ ~call.open
          /\ ret.err.op = "ListMembers" => allRepos = <<>> /\ statsLog = <<>>
          /\ ret.err.op = "ListByOrg" => statsLog = <<>> /\ addLog = <<>>
          /\ ret.err.op = "ListContributorsStats" =>
                /\ statsLog # <<>> /\ statsLog[Len(statsLog)] = allRepos[repoIdx].Name
                /\ \A k \in 1..Len(addLog) : addLog[k].repo < repoIdx
                /\ \A l \in Logins(data) : data[l].Reviews = 0
    /\ call.signal = "error" =>
          Done /\ ret = [stats |-> NewStats, err |-> [op |-> call.op, kind |-> "error"]]
    /\ ~Done => ret = [stats |-> NewStats, err |-> NoError]

\* the search of the review pass failed after records had been accumulated,
\* one of them with its reviews already added, and Gather returned no record
C11_Witness ==
    /\ Done /\ ret.err = [op |-> "Search", kind |-> "error"]
    /\ \E l \in Logins(data) : data[l].Additions > 0 /\ data[l].Reviews > 0
    /\ pending # {}
    /\ ret.stats = NewStats

----------------------------------------------------------------------------
\* the names of the kept repositories among the first n of allRepos, in
\* enumeration order
RECURSIVE KeptNames(_)
KeptNames(n) ==
    IF n = 0
    THEN <<>>
    ELSE IF n \in Kept
         THEN Append(KeptNames(n - 1), allRepos[n].Name)
         ELSE KeptNames(n - 1)

\* C12: stats are never requested for a fork while forks are excluded, nor for
\* a repository whose name matches a repo-deny entry; every other enumerated
\* repository has its stats requested, in enumeration order and one at a time:
\* the requests made so far are exactly the kept repositories among those the
\* loop has reached, and a stats call is in flight only for the repository the
\* loop stands on.
C12_StatsRequestedForKeptInOrder ==
    /\ pc \in {"getOrgMembers", "repos"} => statsLog = <<>>
    /\ pc = "loop" => statsLog = KeptNames(repoIdx - 1)
    /\ pc \in {"getStats", "contributors"} =>
          repoIdx \in Kept /\ statsLog = KeptNames(repoIdx)
    /\ Collected => statsLog = KeptNames(Len(allRepos))
    /\ (Done /\ ret.err.op = "ListContributorsStats") =>
          repoIdx \in Kept /\ statsLog = KeptNames(repoIdx)
    /\ (Done /\ ret.err.op = "Search") => statsLog = KeptNames(Len(allRepos))
    /\ call.op = "ListContributorsStats" => statsLog # <<>>
    /\ (call.op = "ListContributorsStats" /\ call.open) =>
          /\ pc = "getStats"
          /\ statsLog[Len(statsLog)] = allRepos[repoIdx].Name
    /\ \A k \in 1..Len(statsLog) :
          \A i \in 1..Len(allRepos) :
             allRepos[i].Name = statsLog[k] =>
                /\ ~(excludeForks /\ allRepos[i].Fork)
                /\ ~Matches(repoBlacklist, allRepos[i].Name)

\* Gather returned with forks excluded after an enumeration of four
\* repositories, one a fork and another a non-fork on the repo-deny list: the
\* stats of the two others were requested
C12_Witness ==
    /\ Returned /\ excludeForks
    /\ Len(allRepos) = 4
    /\ \E i \in 1..Len(allRepos) : allRepos[i].Fork
    /\ \E i \in 1..Len(allRepos) :
          ~allRepos[i].Fork /\ Matches(repoBlacklist, allRepos[i].Name)
    /\ statsLog = <<allRepos[1].Name, allRepos[4].Name>>

----------------------------------------------------------------------------
\* the review pass is running
Reviewing == pc \in {"reviews", "search"}

\* C13: with review stats enabled, every user of the Aggregate Gather returns
\* has as reviews the total the review search gave for that login, added once
\* whatever the retries; the search is issued only for logins that were in the
\* Aggregate when the line-stat collection ended, each of them once; and the
\* review pass neither adds nor removes a login nor changes additions,
\* deletions or commits. With review stats disabled no search is made.
C13_ReviewsAddedOnce ==
    /\ [] /\ (Returned /\ includeReviewStats) =>
                \A l \in Logins(ret.stats) : ret.stats[l].Reviews = reviewTotals[l]
          /\ Reviewing =>
                /\ includeReviewStats
                /\ pending \subseteq Logins(data)
                /\ pc = "search" => user \in pending
                /\ \A l \in Logins(data) :
                      data[l].Reviews = IF l \in pending THEN 0 ELSE reviewTotals[l]
          /\ call.op = "Search" => includeReviewStats /\ user \in Logins(data)
          /\ ~includeReviewStats => \A l \in Logins(data) : data[l].Reviews = 0
    /\ [][Reviewing =>
            /\ Logins(data') = Logins(data)
            /\ \A l \in Logins(data) : \A f \in {"Additions", "Deletions", "Commits"} :
                  data'[l][f] = data[l][f]
            /\ pending' \subseteq pending
            /\ (pc = "search" /\ pc' = "reviews") => pending' = pending \ {user}]_vars

\* Gather returned with review stats: a user with line activity has the four
\* reviews the search gave, and a login the search would have found reviews
\* for, but which had no record when the line stats ended, has none
C13_Witness ==
    /\ Returned /\ includeReviewStats
    /\ \E l \in Logins(ret.stats) :
          ret.stats[l].Additions > 0 /\ ret.stats[l].Reviews = 4
    /\ \E l \in UserLogins \ Logins(ret.stats) : reviewTotals[l] > 0

----------------------------------------------------------------------------
StatFields == {"Additions", "Deletions", "Commits", "Reviews"}

\* the login of the contributor entry an element of addLog stands for
LoginOf(e) == StatsOf(e.repo)[e.cs].login

\* C14: counters only grow. Every step of a run, each add and each
\* addReviewStats among them, leaves each of the four fields For(user) reads at
\* least at its previous value, and no field is ever negative; the upstream
\* values are non-negative.
C14_CountersOnlyGrow ==
    /\ [] \A l \in UserLogins : \A f \in StatFields : For(data, l)[f] >= 0
    /\ [][\A l \in UserLogins : \A f \in StatFields :
              For(data', l)[f] >= For(data, l)[f]]_vars

\* a login has had two of its contributor entries added, the first with
\* additions and the second with none, and then its reviews
C14_Witness ==
    /\ pc = "reviews" /\ pending = {}
    /\ \E l \in Logins(data) :
          /\ data[l].Reviews > 0
          /\ \E i, j \in 1..Len(addLog) :
                /\ i < j /\ LoginOf(addLog[i]) = l /\ LoginOf(addLog[j]) = l
                /\ SumWeeks(StatsOf(addLog[i].repo)[addLog[i].cs], 1, "Additions") > 0
                /\ SumWeeks(StatsOf(addLog[j].repo)[addLog[j].cs], 1, "Additions") = 0

----------------------------------------------------------------------------
\* What a run returns, as a function of the upstream data and of the
\* configuration other than the repo allow-list, with no order in it

\* the contributor entries of login l in the kept repositories
Entries(l) ==
    UNION { { [repo |-> i, cs |-> j] : j \in {k \in 1..Len(StatsOf(i)) :
                  StatsOf(i)[k].hasAuthor /\ StatsOf(i)[k].login = l} } : i \in Kept }

\* the sum of field f over the counted weeks of a set of entries
RECURSIVE SumOver(_, _)
SumOver(S, f) ==
    IF S = {}
    THEN 0
    ELSE LET e == CHOOSE x \in S : TRUE
         IN  SumWeeks(StatsOf(e.repo)[e.cs], 1, f) + SumOver(S \ {e}, f)

Eligible(l) ==
    /\ l # NoLogin
    /\ l \in Listed \/ Matches(userWhitelist, l)
    /\ ~Matches(userBlacklist, l)

ExpectedLogins ==
    {l \in UserLogins :
        /\ Eligible(l)
        /\ Entries(l) # {}
        /\ since = 0 \/ SumOver(Entries(l), "Additions") + SumOver(Entries(l), "Deletions")
                            + SumOver(Entries(l), "Commits") > 0}

Expected ==
    [l \in ExpectedLogins |->
        [Additions |-> SumOver(Entries(l), "Additions"),
         Deletions |-> SumOver(Entries(l), "Deletions"),
         Commits   |-> SumOver(Entries(l), "Commits"),
         Reviews   |-> IF includeReviewStats THEN reviewTotals[l] ELSE 0]]

\* C15: the repo allow-list has no effect. The repositories skipped, the
\* upstream calls issued and the Aggregate returned are those fixed by the
\* deny-lists, the user allow-list, the fork option, the cutoff and the upstream
\* data alone: runs that differ in the repo allow-list only request the stats of
\* the same repositories in the same order, fetch the same pages, search the
\* same logins and return the same Aggregate.
C15_RepoAllowListIgnored ==
    /\ \E n \in 0..Len(allRepos) : statsLog = KeptNames(n)
    /\ Collected => statsLog = KeptNames(Len(allRepos))
    /\ Reviewing => pending \subseteq ExpectedLogins
    /\ call.op = "Search" => user \in ExpectedLogins
    /\ Returned =>
          /\ ServedPages("ListMembers", Len(served)) = Upto(Len(memberPages))
          /\ ServedPages("ListByOrg", Len(served)) = Upto(Len(repoPages))
          /\ ret.stats = Expected

\* Gather returned records although a repository on the repo allow-list was
\* skipped, and the stats of another, not on that list, were requested
C15_Witness ==
    /\ Returned /\ Logins(ret.stats) # {}
    /\ \E i \in 1..Len(allRepos) :
          i \notin Kept /\ Matches(repoWhitelist, allRepos[i].Name)
    /\ \E i \in Kept : ~Matches(repoWhitelist, allRepos[i].Name)

----------------------------------------------------------------------------
\* entry e starts with the five characters of prefix
Scoped(e, prefix) == Len(e) >= 5 /\ \A i \in 1..5 : e[i] = prefix[i]

NotRepoScoped(e) == ~Scoped(e, <<"r", "e", "p", "o", ":">>)

NotUserScoped(e) == ~Scoped(e, <<"u", "s", "e", "r", ":">>)

\* entry e without its first five characters when it starts with prefix
Unscoped(e, prefix) ==
    IF Scoped(e, prefix) THEN [i \in 1..(Len(e) - 5) |-> e[i + 5]] ELSE e

\* the user-scoped and the repo-scoped output the claim gives for a list
UserScopedOf(list) ==
    LET kept == SelectSeq(list, NotRepoScoped)
    IN  [i \in 1..Len(kept) |-> Unscoped(kept[i], <<"u", "s", "e", "r", ":">>)]

RepoScopedOf(list) ==
    LET kept == SelectSeq(list, NotUserScoped)
    IN  [i \in 1..Len(kept) |-> Unscoped(kept[i], <<"r", "e", "p", "o", ":">>)]

\* C16: buildBlacklists and buildWhitelists split a list the same way: the
\* user-scoped output holds, in input order, each entry starting with user:
\* with that prefix removed and each unprefixed entry as it is; the repo-scoped
\* output holds, in input order, each entry starting with repo: with that
\* prefix removed and each unprefixed entry as it is; an entry starting with
\* user: adds nothing to the repo-scoped output and one starting with repo:
\* nothing to the user-scoped output.
C16_ListsSplitByPrefix ==
    pc = "built" =>
        /\ userBlacklist = UserScopedOf(rawBlacklist)
        /\ repoBlacklist = RepoScopedOf(rawBlacklist)
        /\ userWhitelist = UserScopedOf(rawWhitelist)
        /\ repoWhitelist = RepoScopedOf(rawWhitelist)
        /\ Len(repoBlacklist) = Cardinality({i \in 1..Len(rawBlacklist) :
                                                NotUserScoped(rawBlacklist[i])})
        /\ Len(userBlacklist) = Cardinality({i \in 1..Len(rawBlacklist) :
                                                NotRepoScoped(rawBlacklist[i])})
        /\ Len(repoWhitelist) = Cardinality({i \in 1..Len(rawWhitelist) :
                                                NotUserScoped(rawWhitelist[i])})
        /\ Len(userWhitelist) = Cardinality({i \in 1..Len(rawWhitelist) :
                                                NotRepoScoped(rawWhitelist[i])})

\* a deny-list of a user: entry and an unprefixed one, and an allow-list of a
\* repo: entry whose remainder starts with user: and a bare user:, were split
C16_Witness ==
    /\ pc = "built"
    /\ rawBlacklist = << UserPrefix \o al, bo >>
    /\ userBlacklist = <<al, bo>> /\ repoBlacklist = <<bo>>
    /\ rawWhitelist = << RepoPrefix \o UserPrefix \o al, UserPrefix >>
    /\ userWhitelist = << <<>> >> /\ repoWhitelist = << UserPrefix \o al >>

----------------------------------------------------------------------------
\* the contributor entries of the kept repositories that are to be counted
IncludedEntries == UNION { Entries(l) : l \in {x \in UserLogins : Eligible(x)} }

\* C17: retries neither corrupt nor double-count. The Aggregate Gather returns
\* is the one the upstream data and the configuration give, whatever transient
\* signals came in between, hence the one of the run without any; each included
\* (repository, contributor) entry is folded in exactly once, in order; and a
\* step that ends in a retry changes nothing but the record of the call.
C17_RetriesLeaveNoTrace ==
    /\ [] /\ Returned => ret.stats = Expected
          /\ \A i, j \in 1..Len(addLog) : addLog[i] = addLog[j] => i = j
          /\ \A i, j \in 1..Len(addLog) :
                i < j => \/ addLog[i].repo < addLog[j].repo
                         \/ addLog[i].repo = addLog[j].repo /\ addLog[i].cs < addLog[j].cs
          /\ {addLog[k] : k \in 1..Len(addLog)} \subseteq IncludedEntries
          /\ Collected => {addLog[k] : k \in 1..Len(addLog)} = IncludedEntries
    /\ [][call'.open =>
            /\ call'.attempts = Current(call'.op).attempts + 1
            /\ UNCHANGED <<config, upstream, pc, page, members, allRepos, repoIdx, stats,
                           csIdx, data, pending, user, ret, served, statsLog, addLog>>]_vars

\* the last search of the review pass succeeded at its second attempt, and the
\* records, two entries or more folded into them, are those of a run without
\* any retry
C17_Witness ==
    /\ pc = "reviews" /\ pending = {}
    /\ call.op = "Search" /\ call.signal = "ok" /\ call.attempts = 2
    /\ Len(addLog) >= 2
    /\ \E l \in Logins(data) : data[l].Reviews > 0 /\ data[l].Commits > 0
    /\ data = Expected

----------------------------------------------------------------------------
\* the counted weeks of entry cs sum to zero in every line field
ZeroPass(cs) ==
    SumWeeks(cs, 1, "Additions") + SumWeeks(cs, 1, "Deletions")
        + SumWeeks(cs, 1, "Commits") = 0

\* C18: the zero-activity discard never loses recorded activity. No step of a
\* run removes a login from the Aggregate; when add processes an entry whose
\* qualifying weeks sum to zero for a user that has a record, the record stays
\* and is unchanged; and under a cutoff an included entry leaves its user
\* without a record only if the user had none and the entry sums to zero.
C18_DiscardLosesNothing ==
    [][/\ Logins(data) \subseteq Logins(data')
       /\ pc = "contributors" =>
             LET cs == stats[csIdx]
             IN  /\ (cs.hasAuthor /\ cs.login \in Logins(data) /\ ZeroPass(cs)) =>
                       data' = data
                 /\ (Included(cs) /\ cs.login \notin Logins(data')) =>
                       /\ since # 0
                       /\ cs.login \notin Logins(data)
                       /\ ZeroPass(cs)]_vars

\* under a cutoff, the entry added last sums to zero, and its user, whose
\* record an earlier entry with activity made, still has that record
C18_Witness ==
    /\ since # 0 /\ pc \in {"contributors", "loop"}
    /\ Len(addLog) >= 2
    /\ LET e == addLog[Len(addLog)]
           l == LoginOf(e)
       IN  /\ ZeroPass(StatsOf(e.repo)[e.cs])
           /\ l \in Logins(data)
           /\ data[l].Additions + data[l].Deletions + data[l].Commits > 0
           /\ \E k \in 1..(Len(addLog) - 1) :
                 LoginOf(addLog[k]) = l /\ ~ZeroPass(StatsOf(addLog[k].repo)[addLog[k].cs])

----------------------------------------------------------------------------
\* the entries of the kept repositories folded in by add in the opposite
\* order: repositories from the last enumerated to the first, contributors from
\* the last to the first
RECURSIVE BackFold(_, _, _)
BackFold(i, j, d) ==
    IF i = 0
    THEN d
    ELSE IF i \notin Kept \/ j = 0
         THEN BackFold(i - 1, IF i > 1 THEN Len(StatsOf(i - 1)) ELSE 0, d)
         ELSE LET cs == StatsOf(i)[j]
              IN  BackFold(i, j - 1,
                           IF cs.hasAuthor /\ Eligible(cs.login) THEN add(d, since, cs) ELSE d)

Backwards ==
    LET n == Len(allRepos)
        d == BackFold(n, IF n > 0 THEN Len(StatsOf(n)) ELSE 0, NewStats)
    IN  [l \in DOMAIN d |->
            [d[l] EXCEPT !.Reviews = IF includeReviewStats THEN reviewTotals[l] ELSE 0]]

\* C19: the Aggregate Gather returns does not depend on the processing order.
\* It is the one the same entries give when folded in the opposite repository
\* and contributor order, and each record is the sum over the set of the
\* user's entries, the login being present when it has an entry and, under a
\* cutoff, a nonzero total; so every enumeration order of the repositories and
\* either order of the contributors return the same logins and records, with
\* and without a cutoff. Weekly values are non-negative.
C19_OrderIndependent ==
    Returned =>
        /\ ret.stats = Backwards
        /\ Logins(ret.stats) = ExpectedLogins
        /\ \A l \in Logins(ret.stats) : \A f \in LineFields :
               ret.stats[l][f] = SumOver(Entries(l), f)

\* Gather returned under a cutoff from an enumeration that is not the listed
\* one, the contributors reversed: a user's first entry summed to zero, a later
\* one did not, and the user is in the Aggregate
C19_Witness ==
    /\ Returned /\ since # 0
    /\ contributorStats # Org2
    /\ allRepos[1] # OrderedRepos[1]
    /\ \E i, j \in 1..Len(addLog) :
          /\ i < j /\ LoginOf(addLog[i]) = LoginOf(addLog[j])
          /\ ZeroPass(StatsOf(addLog[i].repo)[addLog[i].cs])
          /\ ~ZeroPass(StatsOf(addLog[j].repo)[addLog[j].cs])
          /\ LoginOf(addLog[i]) \in Logins(ret.stats)

----------------------------------------------------------------------------
====
